---------------------------- MODULE Spec2Model ----------------------------
(***************************************************************************)
(* Model of quant-commander-v2's two scripts:                              *)
(*   src/generate_sample_data.py  the synthetic transaction generator      *)
(*   src/analyze_reg.py           the top/bottom product ranker            *)
(*                                                                         *)
(* Four specifications share the module:                                   *)
(*   SpecClassify  AIProductGenerator.generate_products_and_categories     *)
(*   SpecGen       SampleDataGenerator.__init__ / generate_data            *)
(*   SpecBudget    _generate_budget and _generate_actuals as functions     *)
(*   SpecRank      analyze_product_performance                             *)
(*                                                                         *)
(* Text that the code inspects character by character (the business        *)
(* description) is a sequence of one-character strings.  Text that the     *)
(* code only compares for equality (product, state, channel names) is a    *)
(* TLA+ string.  Floating-point factors are fixed-point thousandths.       *)
(***************************************************************************)
EXTENDS Integers, Sequences, FiniteSets, TLC

VARIABLES
  \* ---- SpecClassify
  business_type,   \* the description passed to generate_products_and_categories
  use_ai,          \* its use_ai argument
  cpc,             \* "call" before the call, "returned" after it
  cresult,         \* [status, value]: what the call gave back
  \* ---- SpecGen
  rng,             \* state of the process-wide `random` generator
  seed_state,      \* the generator state random.seed(42) establishes
  sort_ties,       \* where the unstable sort leaves rows of equal Date
  generators,      \* the SampleDataGenerator objects constructed so far
  gpc,             \* "idle" | "loop" | "save": position inside generate_data
  args,            \* arguments of the generate_data call in progress
  draws,           \* draws taken from rng so far in this process
  data,            \* the list `data` built by the loop (generation order)
  files,           \* output files written so far: file name -> rows
  runs,            \* finished generate_data calls, in order
  \* ---- SpecBudget
  bin,             \* inputs of one _generate_budget/_generate_actuals evaluation
  bout,            \* << >> before the evaluation, <<its results>> after
  \* ---- SpecRank
  csv,             \* the rows of the CSV file handed to the ranker
  rpc,             \* "start" | "done"
  report,          \* what analyze_product_performance printed, or its error
  \* ---- SpecRecord
  pin,             \* <<inputs of one iteration of generate_data's loop>>
  pout             \* << >> before the iteration, <<the record>> after

cvars == <<business_type, use_ai, cpc, cresult>>
gvars == <<rng, seed_state, sort_ties, generators, gpc, args, draws, data, files, runs>>
bvars == <<bin, bout>>
rvars == <<csv, rpc, report>>
pvars == <<pin, pout>>
vars  == <<cvars, gvars, bvars, rvars, pvars>>

None == "None"

(***************************************************************************)
(* Bounds of the model.                                                    *)
(***************************************************************************)
\* Longest business description, in words.
MaxWords == 2
\* Most SampleDataGenerator objects constructed in one process.
MaxGenerators == 2
\* Most generate_data calls in one process.
MaxCalls == 2
\* Largest row_count passed to generate_data.
MaxRows == 2
\* Longest date window passed to generate_data, in days.
MaxDays == 2
\* Most rows in the CSV file handed to the ranker.
MaxRecords == 3

----------------------------------------------------------------------------
(***************************************************************************)
(* Module-level tables of generate_sample_data.py.                         *)
(***************************************************************************)
DEFAULT_PRODUCTS ==
  <<
    "Premium Laptop Pro", "Smart Home Security System", "Wireless Gaming Headset",
    "Professional Coffee Machine", "Fitness Tracker Elite", "4K Ultra HD TV",
    "Electric Standing Desk", "Bluetooth Speaker Max", "Digital Camera Pro",
    "Smart Watch Series X", "Wireless Earbuds Pro", "Smart Thermostat",
    "Gaming Desktop Ultimate", "Yoga Mat Premium", "Protein Powder" >>

DEFAULT_CATEGORIES ==
  <<
    "Electronics", "Home & Garden", "Health & Fitness",
    "Office & Business", "Entertainment" >>

CHANNELS ==
  <<
    "Online", "Retail", "Direct Sales", "Partner", "Wholesale" >>

create_fallback_mapping ==
  (
    "Premium Laptop Pro" :> "Electronics" @@ "Smart Home Security System" :> "Home & Garden" @@
    "Wireless Gaming Headset" :> "Electronics" @@ "Professional Coffee Machine" :> "Home & Garden" @@
    "Fitness Tracker Elite" :> "Health & Fitness" @@ "4K Ultra HD TV" :> "Electronics" @@
    "Electric Standing Desk" :> "Office & Business" @@ "Bluetooth Speaker Max" :> "Electronics" @@
    "Digital Camera Pro" :> "Electronics" @@ "Smart Watch Series X" :> "Health & Fitness" @@
    "Wireless Earbuds Pro" :> "Electronics" @@ "Smart Thermostat" :> "Home & Garden" @@
    "Gaming Desktop Ultimate" :> "Electronics" @@ "Yoga Mat Premium" :> "Health & Fitness" @@
    "Protein Powder" :> "Health & Fitness" )

generate_restaurant_data ==
  [ products |-> <<
      "Caesar Salad", "Buffalo Wings", "Mozzarella Sticks",
      "Grilled Salmon", "Prime Ribeye Steak", "Chicken Parmesan",
      "Craft Beer Selection", "Premium Wine List", "Specialty Cocktails",
      "Chocolate Lava Cake", "Tiramisu", "Seasonal Fruit Tart",
      "Chef's Daily Special", "Weekend Brunch Menu", "Holiday Feast" >>,
    categories |-> <<
      "Appetizers", "Main Courses", "Beverages",
      "Desserts", "Specials" >>,
    mapping |-> (
      "Caesar Salad" :> "Appetizers" @@ "Buffalo Wings" :> "Appetizers" @@
      "Mozzarella Sticks" :> "Appetizers" @@ "Grilled Salmon" :> "Main Courses" @@
      "Prime Ribeye Steak" :> "Main Courses" @@ "Chicken Parmesan" :> "Main Courses" @@
      "Craft Beer Selection" :> "Beverages" @@ "Premium Wine List" :> "Beverages" @@
      "Specialty Cocktails" :> "Beverages" @@ "Chocolate Lava Cake" :> "Desserts" @@
      "Tiramisu" :> "Desserts" @@ "Seasonal Fruit Tart" :> "Desserts" @@
      "Chef's Daily Special" :> "Specials" @@ "Weekend Brunch Menu" :> "Specials" @@
      "Holiday Feast" :> "Specials" ) ]

generate_fitness_data ==
  [ products |-> <<
      "Professional Treadmill", "Elliptical Trainer", "Stationary Bike",
      "Olympic Weight Set", "Power Rack System", "Adjustable Dumbbells",
      "Yoga Mat Premium", "Resistance Bands", "Foam Roller",
      "Whey Protein Powder", "Pre-Workout Formula", "Recovery Drink",
      "Athletic Shorts", "Performance T-Shirt", "Training Shoes" >>,
    categories |-> <<
      "Cardio Equipment", "Strength Training", "Accessories",
      "Supplements", "Apparel" >>,
    mapping |-> (
      "Professional Treadmill" :> "Cardio Equipment" @@ "Elliptical Trainer" :> "Cardio Equipment" @@
      "Stationary Bike" :> "Cardio Equipment" @@ "Olympic Weight Set" :> "Strength Training" @@
      "Power Rack System" :> "Strength Training" @@ "Adjustable Dumbbells" :> "Strength Training" @@
      "Yoga Mat Premium" :> "Accessories" @@ "Resistance Bands" :> "Accessories" @@
      "Foam Roller" :> "Accessories" @@ "Whey Protein Powder" :> "Supplements" @@
      "Pre-Workout Formula" :> "Supplements" @@ "Recovery Drink" :> "Supplements" @@
      "Athletic Shorts" :> "Apparel" @@ "Performance T-Shirt" :> "Apparel" @@
      "Training Shoes" :> "Apparel" ) ]

generate_tech_data ==
  [ products |-> <<
      "Gaming Laptop Pro", "Desktop Workstation", "Ultrabook Elite",
      "Flagship Smartphone", "Tablet Pro", "Smartwatch Series",
      "4K Monitor", "Wireless Headphones", "Streaming Camera",
      "Gaming Console", "Mechanical Keyboard", "Gaming Mouse Pro",
      "Smart Thermostat", "Security Camera System", "Voice Assistant" >>,
    categories |-> <<
      "Computing", "Mobile Devices", "Audio/Visual",
      "Gaming", "Smart Home" >>,
    mapping |-> (
      "Gaming Laptop Pro" :> "Computing" @@ "Desktop Workstation" :> "Computing" @@
      "Ultrabook Elite" :> "Computing" @@ "Flagship Smartphone" :> "Mobile Devices" @@
      "Tablet Pro" :> "Mobile Devices" @@ "Smartwatch Series" :> "Mobile Devices" @@
      "4K Monitor" :> "Audio/Visual" @@ "Wireless Headphones" :> "Audio/Visual" @@
      "Streaming Camera" :> "Audio/Visual" @@ "Gaming Console" :> "Gaming" @@
      "Mechanical Keyboard" :> "Gaming" @@ "Gaming Mouse Pro" :> "Gaming" @@
      "Smart Thermostat" :> "Smart Home" @@ "Security Camera System" :> "Smart Home" @@
      "Voice Assistant" :> "Smart Home" ) ]

generate_fashion_data ==
  [ products |-> <<
      "Designer Jeans", "Cotton T-Shirt", "Casual Hoodie",
      "Business Suit", "Evening Dress", "Dress Shirt",
      "Running Sneakers", "Leather Boots", "Dress Shoes",
      "Designer Handbag", "Luxury Watch", "Statement Jewelry",
      "Winter Coat", "Summer Dress", "Beach Swimwear" >>,
    categories |-> <<
      "Casual Wear", "Formal Wear", "Footwear",
      "Accessories", "Seasonal" >>,
    mapping |-> (
      "Designer Jeans" :> "Casual Wear" @@ "Cotton T-Shirt" :> "Casual Wear" @@
      "Casual Hoodie" :> "Casual Wear" @@ "Business Suit" :> "Formal Wear" @@
      "Evening Dress" :> "Formal Wear" @@ "Dress Shirt" :> "Formal Wear" @@
      "Running Sneakers" :> "Footwear" @@ "Leather Boots" :> "Footwear" @@
      "Dress Shoes" :> "Footwear" @@ "Designer Handbag" :> "Accessories" @@
      "Luxury Watch" :> "Accessories" @@ "Statement Jewelry" :> "Accessories" @@
      "Winter Coat" :> "Seasonal" @@ "Summer Dress" :> "Seasonal" @@
      "Beach Swimwear" :> "Seasonal" ) ]

generate_automotive_data ==
  [ products |-> <<
      "Performance Air Filter", "Turbocharger Kit", "Exhaust System",
      "Carbon Fiber Hood", "LED Headlights", "Custom Wheels",
      "Leather Seat Covers", "Dashboard Kit", "Floor Mats",
      "GPS Navigation", "Backup Camera", "Sound System",
      "Motor Oil Premium", "Brake Pads", "Tire Set" >>,
    categories |-> <<
      "Engine Parts", "Body & Exterior", "Interior",
      "Electronics", "Maintenance" >>,
    mapping |-> (
      "Performance Air Filter" :> "Engine Parts" @@ "Turbocharger Kit" :> "Engine Parts" @@
      "Exhaust System" :> "Engine Parts" @@ "Carbon Fiber Hood" :> "Body & Exterior" @@
      "LED Headlights" :> "Body & Exterior" @@ "Custom Wheels" :> "Body & Exterior" @@
      "Leather Seat Covers" :> "Interior" @@ "Dashboard Kit" :> "Interior" @@
      "Floor Mats" :> "Interior" @@ "GPS Navigation" :> "Electronics" @@
      "Backup Camera" :> "Electronics" @@ "Sound System" :> "Electronics" @@
      "Motor Oil Premium" :> "Maintenance" @@ "Brake Pads" :> "Maintenance" @@
      "Tire Set" :> "Maintenance" ) ]

generate_beauty_data ==
  [ products |-> <<
      "Anti-Aging Serum", "Moisturizing Cream", "Cleansing Oil",
      "Foundation Premium", "Lipstick Collection", "Eyeshadow Palette",
      "Shampoo & Conditioner", "Hair Styling Cream", "Hair Dryer Pro",
      "Luxury Perfume", "Body Spray", "Scented Candle",
      "Makeup Brush Set", "Beauty Blender", "LED Mirror" >>,
    categories |-> <<
      "Skincare", "Makeup", "Haircare",
      "Fragrance", "Tools" >>,
    mapping |-> (
      "Anti-Aging Serum" :> "Skincare" @@ "Moisturizing Cream" :> "Skincare" @@
      "Cleansing Oil" :> "Skincare" @@ "Foundation Premium" :> "Makeup" @@
      "Lipstick Collection" :> "Makeup" @@ "Eyeshadow Palette" :> "Makeup" @@
      "Shampoo & Conditioner" :> "Haircare" @@ "Hair Styling Cream" :> "Haircare" @@
      "Hair Dryer Pro" :> "Haircare" @@ "Luxury Perfume" :> "Fragrance" @@
      "Body Spray" :> "Fragrance" @@ "Scented Candle" :> "Fragrance" @@
      "Makeup Brush Set" :> "Tools" @@ "Beauty Blender" :> "Tools" @@
      "LED Mirror" :> "Tools" ) ]

generate_home_data ==
  [ products |-> <<
      "Leather Sofa Set", "Dining Table Oak", "Office Chair Ergonomic",
      "Wall Art Canvas", "Table Lamp Modern", "Decorative Vase",
      "Stainless Steel Cookware", "Coffee Machine Pro", "Blender High-Speed",
      "Garden Tool Set", "Outdoor Furniture", "Plant Collection",
      "Storage Bins", "Closet Organizer", "Garage Shelving" >>,
    categories |-> <<
      "Furniture", "Decor", "Kitchen",
      "Garden", "Storage" >>,
    mapping |-> (
      "Leather Sofa Set" :> "Furniture" @@ "Dining Table Oak" :> "Furniture" @@
      "Office Chair Ergonomic" :> "Furniture" @@ "Wall Art Canvas" :> "Decor" @@
      "Table Lamp Modern" :> "Decor" @@ "Decorative Vase" :> "Decor" @@
      "Stainless Steel Cookware" :> "Kitchen" @@ "Coffee Machine Pro" :> "Kitchen" @@
      "Blender High-Speed" :> "Kitchen" @@ "Garden Tool Set" :> "Garden" @@
      "Outdoor Furniture" :> "Garden" @@ "Plant Collection" :> "Garden" @@
      "Storage Bins" :> "Storage" @@ "Closet Organizer" :> "Storage" @@
      "Garage Shelving" :> "Storage" ) ]
\* list(STATES_CITIES.keys()): the keys in insertion order.
state_names ==
  <<
    "Alabama", "Alaska", "Arizona", "Arkansas", "California",
    "Colorado", "Connecticut", "Delaware", "Florida", "Georgia",
    "Hawaii", "Idaho", "Illinois", "Indiana", "Iowa",
    "Kansas", "Kentucky", "Louisiana", "Maine", "Maryland",
    "Massachusetts", "Michigan", "Minnesota", "Mississippi", "Missouri",
    "Montana", "Nebraska", "Nevada", "New Hampshire", "New Jersey",
    "New Mexico", "New York", "North Carolina", "North Dakota", "Ohio",
    "Oklahoma", "Oregon", "Pennsylvania", "Rhode Island", "South Carolina",
    "South Dakota", "Tennessee", "Texas", "Utah", "Vermont",
    "Virginia", "Washington", "West Virginia", "Wisconsin", "Wyoming" >>

STATES_CITIES ==
  (
    "Alabama" :> <<"Birmingham", "Mobile", "Montgomery">> @@
    "Alaska" :> <<"Anchorage", "Fairbanks", "Juneau">> @@
    "Arizona" :> <<"Phoenix", "Tucson", "Mesa">> @@
    "Arkansas" :> <<"Little Rock", "Fort Smith", "Fayetteville">> @@
    "California" :> <<"Los Angeles", "San Diego", "San Jose">> @@
    "Colorado" :> <<"Denver", "Colorado Springs", "Aurora">> @@
    "Connecticut" :> <<"Bridgeport", "New Haven", "Hartford">> @@
    "Delaware" :> <<"Wilmington", "Dover", "Newark">> @@
    "Florida" :> <<"Jacksonville", "Miami", "Tampa">> @@
    "Georgia" :> <<"Atlanta", "Columbus", "Augusta">> @@
    "Hawaii" :> <<"Honolulu", "Pearl City", "Hilo">> @@
    "Idaho" :> <<"Boise", "Meridian", "Nampa">> @@
    "Illinois" :> <<"Chicago", "Aurora", "Rockford">> @@
    "Indiana" :> <<"Indianapolis", "Fort Wayne", "Evansville">> @@
    "Iowa" :> <<"Des Moines", "Cedar Rapids", "Davenport">> @@
    "Kansas" :> <<"Wichita", "Overland Park", "Kansas City">> @@
    "Kentucky" :> <<"Louisville", "Lexington", "Bowling Green">> @@
    "Louisiana" :> <<"New Orleans", "Baton Rouge", "Shreveport">> @@
    "Maine" :> <<"Portland", "Lewiston", "Bangor">> @@
    "Maryland" :> <<"Baltimore", "Frederick", "Rockville">> @@
    "Massachusetts" :> <<"Boston", "Worcester", "Springfield">> @@
    "Michigan" :> <<"Detroit", "Grand Rapids", "Warren">> @@
    "Minnesota" :> <<"Minneapolis", "Saint Paul", "Rochester">> @@
    "Mississippi" :> <<"Jackson", "Gulfport", "Southaven">> @@
    "Missouri" :> <<"Kansas City", "Saint Louis", "Springfield">> @@
    "Montana" :> <<"Billings", "Missoula", "Great Falls">> @@
    "Nebraska" :> <<"Omaha", "Lincoln", "Bellevue">> @@
    "Nevada" :> <<"Las Vegas", "Henderson", "Reno">> @@
    "New Hampshire" :> <<"Manchester", "Nashua", "Concord">> @@
    "New Jersey" :> <<"Newark", "Jersey City", "Paterson">> @@
    "New Mexico" :> <<"Albuquerque", "Las Cruces", "Rio Rancho">> @@
    "New York" :> <<"New York City", "Buffalo", "Rochester">> @@
    "North Carolina" :> <<"Charlotte", "Raleigh", "Greensboro">> @@
    "North Dakota" :> <<"Fargo", "Bismarck", "Grand Forks">> @@
    "Ohio" :> <<"Columbus", "Cleveland", "Cincinnati">> @@
    "Oklahoma" :> <<"Oklahoma City", "Tulsa", "Norman">> @@
    "Oregon" :> <<"Portland", "Eugene", "Salem">> @@
    "Pennsylvania" :> <<"Philadelphia", "Pittsburgh", "Allentown">> @@
    "Rhode Island" :> <<"Providence", "Warwick", "Cranston">> @@
    "South Carolina" :> <<"Charleston", "Columbia", "North Charleston">> @@
    "South Dakota" :> <<"Sioux Falls", "Rapid City", "Aberdeen">> @@
    "Tennessee" :> <<"Nashville", "Memphis", "Knoxville">> @@
    "Texas" :> <<"Houston", "San Antonio", "Dallas">> @@
    "Utah" :> <<"Salt Lake City", "West Valley City", "Provo">> @@
    "Vermont" :> <<"Burlington", "Essex", "South Burlington">> @@
    "Virginia" :> <<"Virginia Beach", "Norfolk", "Chesapeake">> @@
    "Washington" :> <<"Seattle", "Spokane", "Tacoma">> @@
    "West Virginia" :> <<"Charleston", "Huntington", "Parkersburg">> @@
    "Wisconsin" :> <<"Milwaukee", "Madison", "Green Bay">> @@
    "Wyoming" :> <<"Cheyenne", "Casper", "Laramie">> )

----------------------------------------------------------------------------
(***************************************************************************)
(* Business descriptions and Python's str operations on them.              *)
(***************************************************************************)
\* The keyword lists of _generate_smart_fallback, in source order.
restaurant_keywords ==
  << <<"r", "e", "s", "t", "a", "u", "r", "a", "n", "t">>,
     <<"f", "o", "o", "d">>,
     <<"c", "a", "f", "e">>,
     <<"d", "i", "n", "i", "n", "g">>,
     <<"k", "i", "t", "c", "h", "e", "n">> >>

fitness_keywords ==
  << <<"f", "i", "t", "n", "e", "s", "s">>,
     <<"g", "y", "m">>,
     <<"h", "e", "a", "l", "t", "h">>,
     <<"w", "e", "l", "l", "n", "e", "s", "s">>,
     <<"s", "p", "o", "r", "t">> >>

tech_keywords ==
  << <<"t", "e", "c", "h">>,
     <<"s", "o", "f", "t", "w", "a", "r", "e">>,
     <<"e", "l", "e", "c", "t", "r", "o", "n", "i", "c", "s">>,
     <<"c", "o", "m", "p", "u", "t", "e", "r">>,
     <<"d", "i", "g", "i", "t", "a", "l">> >>

fashion_keywords ==
  << <<"c", "l", "o", "t", "h", "i", "n", "g">>,
     <<"f", "a", "s", "h", "i", "o", "n">>,
     <<"a", "p", "p", "a", "r", "e", "l">>,
     <<"r", "e", "t", "a", "i", "l">>,
     <<"b", "o", "u", "t", "i", "q", "u", "e">> >>

automotive_keywords ==
  << <<"a", "u", "t", "o", "m", "o", "t", "i", "v", "e">>,
     <<"c", "a", "r">>,
     <<"v", "e", "h", "i", "c", "l", "e">>,
     <<"a", "u", "t", "o">> >>

beauty_keywords ==
  << <<"b", "e", "a", "u", "t", "y">>,
     <<"c", "o", "s", "m", "e", "t", "i", "c">>,
     <<"s", "k", "i", "n", "c", "a", "r", "e">>,
     <<"s", "a", "l", "o", "n">> >>

home_keywords ==
  << <<"h", "o", "m", "e">>,
     <<"f", "u", "r", "n", "i", "t", "u", "r", "e">>,
     <<"d", "e", "c", "o", "r">>,
     <<"g", "a", "r", "d", "e", "n">> >>

\* The letters str.lower() changes (the descriptions are ASCII).
upper_to_lower ==
  ( "A" :> "a" @@ "B" :> "b" @@ "C" :> "c" @@ "D" :> "d" @@ "E" :> "e" @@
    "F" :> "f" @@ "G" :> "g" @@ "H" :> "h" @@ "I" :> "i" @@ "J" :> "j" @@
    "K" :> "k" @@ "L" :> "l" @@ "M" :> "m" @@ "N" :> "n" @@ "O" :> "o" @@
    "P" :> "p" @@ "Q" :> "q" @@ "R" :> "r" @@ "S" :> "s" @@ "T" :> "t" @@
    "U" :> "u" @@ "V" :> "v" @@ "W" :> "w" @@ "X" :> "x" @@ "Y" :> "y" @@
    "Z" :> "z" )

\* Used by a mutant of the classification: no case folding.
lower_no_op(s) == s

\* str.lower()
lower(s) ==
  [i \in 1..Len(s) |->
     IF s[i] \in DOMAIN upper_to_lower THEN upper_to_lower[s[i]] ELSE s[i]]

\* Python's `sub in s` on str: sub occurs in s as a contiguous run.
str_contains(sub, s) ==
  \E i \in 1..(Len(s) - Len(sub) + 1) : SubSeq(s, i, i + Len(sub) - 1) = sub

\* any(keyword in business_lower for keyword in [...])
any_keyword_in(keywords, business_lower) ==
  \E k \in 1..Len(keywords) : str_contains(keywords[k], business_lower)

\* The words descriptions are made of in this model: with and without
\* keywords, in both letter cases, and "skincare", which holds the automotive
\* keyword "car" besides the beauty keyword "skincare".
Words ==
  { <<"c", "o", "z", "y">>,
    <<"c", "a", "f", "e">>,
    <<"C", "a", "f", "e">>,
    <<"G", "Y", "M">>,
    <<"s", "k", "i", "n", "c", "a", "r", "e">>,
    <<"S", "a", "l", "o", "n">>,
    <<"t", "e", "c", "h">>,
    <<"r", "e", "t", "a", "i", "l">>,
    <<"g", "a", "r", "d", "e", "n">>,
    <<"s", "h", "o", "p">>,
    <<"a", "u", "t", "o">>,
    <<"g", "e", "n", "e", "r", "a", "l">> }

RECURSIVE JoinWords(_)
JoinWords(ws) ==
  IF Len(ws) = 1 THEN ws[1] ELSE ws[1] \o <<" ">> \o JoinWords(Tail(ws))

Descriptions ==
  { JoinWords(ws) : ws \in UNION { [1..n -> Words] : n \in 1..MaxWords } }

----------------------------------------------------------------------------
(***************************************************************************)
(* AIProductGenerator                                                      *)
(***************************************************************************)
generate_generic_data ==
  [ products |-> DEFAULT_PRODUCTS,
    categories |-> DEFAULT_CATEGORIES,
    mapping |-> create_fallback_mapping ]

\* A plausible slip: the description is matched without being lower-cased.
generate_smart_fallback_case_sensitive(description) ==
  LET business_lower == lower_no_op(description) IN
  IF any_keyword_in(restaurant_keywords, business_lower)
    THEN generate_restaurant_data
  ELSE IF any_keyword_in(fitness_keywords, business_lower)
    THEN generate_fitness_data
  ELSE IF any_keyword_in(tech_keywords, business_lower)
    THEN generate_tech_data
  ELSE IF any_keyword_in(fashion_keywords, business_lower)
    THEN generate_fashion_data
  ELSE IF any_keyword_in(automotive_keywords, business_lower)
    THEN generate_automotive_data
  ELSE IF any_keyword_in(beauty_keywords, business_lower)
    THEN generate_beauty_data
  ELSE IF any_keyword_in(home_keywords, business_lower)
    THEN generate_home_data
  ELSE generate_generic_data

generate_smart_fallback(description) ==
  LET business_lower == lower(description) IN
  IF any_keyword_in(restaurant_keywords, business_lower)
    THEN generate_restaurant_data
  ELSE IF any_keyword_in(fitness_keywords, business_lower)
    THEN generate_fitness_data
  ELSE IF any_keyword_in(tech_keywords, business_lower)
    THEN generate_tech_data
  ELSE IF any_keyword_in(fashion_keywords, business_lower)
    THEN generate_fashion_data
  ELSE IF any_keyword_in(automotive_keywords, business_lower)
    THEN generate_automotive_data
  ELSE IF any_keyword_in(beauty_keywords, business_lower)
    THEN generate_beauty_data
  ELSE IF any_keyword_in(home_keywords, business_lower)
    THEN generate_home_data
  ELSE generate_generic_data

\* _generate_with_ai: the placeholder delegates to the keyword fallback; it
\* has no statement that can raise.
generate_with_ai(description) ==
  [raised |-> FALSE, value |-> generate_smart_fallback(description)]

\* generate_products_and_categories(business_type, use_ai): the value returned.
generate_products_and_categories(description, ai) ==
  IF ai
    THEN LET r == generate_with_ai(description) IN
         IF r.raised THEN generate_smart_fallback(description) ELSE r.value
    ELSE generate_smart_fallback(description)

ClassifyIdle ==
  /\ business_type = << >>
  /\ use_ai = FALSE
  /\ cpc = "off"
  /\ cresult = None

GenIdle ==
  /\ rng = 0
  /\ seed_state = 0
  /\ sort_ties = "kept"
  /\ generators = << >>
  /\ gpc = "off"
  /\ args = None
  /\ draws = 0
  /\ data = << >>
  /\ files = << >>
  /\ runs = << >>

BudgetIdle ==
  /\ bin = None
  /\ bout = << >>

RankIdle ==
  /\ csv = << >>
  /\ rpc = "off"
  /\ report = None

RecordIdle ==
  /\ pin = << >>
  /\ pout = << >>

InitClassify ==
  /\ business_type \in Descriptions
  /\ use_ai \in BOOLEAN
  /\ cpc = "call"
  /\ cresult = None
  /\ GenIdle /\ BudgetIdle /\ RankIdle /\ RecordIdle

\* One call of generate_products_and_categories, from entry to return.
GenerateProductsAndCategories ==
  /\ cpc = "call"
  /\ cresult' = [ status |-> "ok",
                  value |-> generate_products_and_categories(business_type, use_ai) ]
  /\ cpc' = "returned"
  /\ UNCHANGED <<business_type, use_ai, gvars, bvars, rvars, pvars>>

NextClassify == GenerateProductsAndCategories

SpecClassify == InitClassify /\ [][NextClassify]_vars

----------------------------------------------------------------------------
(***************************************************************************)
(* C1: generate_products_and_categories never fails and returns the        *)
(* profile of the first tag, in the order restaurant, fitness, tech,       *)
(* fashion, automotive, beauty, home, one of whose keywords occurs in the  *)
(* lower-cased description; the generic profile when no tag has one; and   *)
(* "cozy cafe" resolves to the restaurant profile.                         *)
(***************************************************************************)
TagOrder ==
  << [tag |-> "restaurant", keywords |-> restaurant_keywords,
      profile |-> generate_restaurant_data],
     [tag |-> "fitness", keywords |-> fitness_keywords,
      profile |-> generate_fitness_data],
     [tag |-> "tech", keywords |-> tech_keywords,
      profile |-> generate_tech_data],
     [tag |-> "fashion", keywords |-> fashion_keywords,
      profile |-> generate_fashion_data],
     [tag |-> "automotive", keywords |-> automotive_keywords,
      profile |-> generate_automotive_data],
     [tag |-> "beauty", keywords |-> beauty_keywords,
      profile |-> generate_beauty_data],
     [tag |-> "home", keywords |-> home_keywords,
      profile |-> generate_home_data] >>

\* Keyword kw occurs in d at offset off, ignoring the case of d's letters.
OccursAt(kw, d, off) ==
  /\ off + Len(kw) <= Len(d)
  /\ \A j \in 1..Len(kw) :
       LET c == d[off + j] IN
       kw[j] = (IF c \in DOMAIN upper_to_lower THEN upper_to_lower[c] ELSE c)

TagMatches(t, d) ==
  \E k \in 1..Len(TagOrder[t].keywords) : \E off \in 0..Len(d) :
    OccursAt(TagOrder[t].keywords[k], d, off)

ExpectedProfile(d) ==
  IF \E t \in 1..Len(TagOrder) : TagMatches(t, d)
    THEN LET first == CHOOSE t \in 1..Len(TagOrder) :
                        /\ TagMatches(t, d)
                        /\ \A u \in 1..(t - 1) : ~TagMatches(u, d)
         IN TagOrder[first].profile
    ELSE [ products |-> DEFAULT_PRODUCTS,
           categories |-> DEFAULT_CATEGORIES,
           mapping |-> create_fallback_mapping ]

CozyCafe == <<"c", "o", "z", "y", " ", "c", "a", "f", "e">>

C1_FirstMatchWins ==
  cpc = "returned" =>
    /\ cresult.status = "ok"
    /\ cresult.value = ExpectedProfile(business_type)
    /\ business_type = CozyCafe => cresult.value = generate_restaurant_data

\* Reached: a description whose lower-cased text holds keywords of two tags
\* ("Salon" of beauty, "garden" of home) was classified with use_ai set, and
\* the earlier tag won.
C1_Witness ==
  /\ cpc = "returned"
  /\ use_ai
  /\ business_type = <<"S", "a", "l", "o", "n", " ", "g", "a", "r", "d", "e", "n">>
  /\ cresult.value = generate_beauty_data

----------------------------------------------------------------------------
(***************************************************************************)
(* Dates.  A date string is the 10-character text 'YYYY-MM-DD'; a datetime *)
(* is a record [year, month, day].  strptime, timedelta arithmetic and     *)
(* strftime follow CPython's datetime on the proleptic Gregorian calendar. *)
(***************************************************************************)
digits == <<"0", "1", "2", "3", "4", "5", "6", "7", "8", "9">>

is_digit(c) == \E i \in 1..Len(digits) : digits[i] = c

digit_value(c) == (CHOOSE i \in 1..Len(digits) : digits[i] = c) - 1

is_leap(y) == y % 4 = 0 /\ (y % 100 # 0 \/ y % 400 = 0)

days_in_month(y, m) ==
  IF m = 2 THEN (IF is_leap(y) THEN 29 ELSE 28)
  ELSE IF m \in {4, 6, 9, 11} THEN 30
  ELSE 31

\* Days of a common year that precede the first of month m.
days_before_month_table == <<0, 31, 59, 90, 120, 151, 181, 212, 243, 273, 304, 334>>

days_before_month(y, m) ==
  days_before_month_table[m] + (IF m > 2 /\ is_leap(y) THEN 1 ELSE 0)

days_before_year(y) ==
  (y - 1) * 365 + ((y - 1) \div 4) - ((y - 1) \div 100) + ((y - 1) \div 400)

\* datetime.toordinal()
toordinal(dt) ==
  days_before_year(dt.year) + days_before_month(dt.year, dt.month) + dt.day

\* The years the model's dates lie in.
Years == 2023..2025

\* datetime.fromordinal(), for ordinals inside Years.
fromordinal(n) ==
  LET y == CHOOSE yy \in Years :
             days_before_year(yy) < n /\ n <= days_before_year(yy + 1)
      r == n - days_before_year(y)
      m == CHOOSE mm \in 1..12 :
             /\ days_before_month(y, mm) < r
             /\ r <= days_before_month(y, mm) + days_in_month(y, mm)
  IN [year |-> y, month |-> m, day |-> r - days_before_month(y, m)]

\* Whether datetime.strptime(s, '%Y-%m-%d') accepts the 10-character form.
is_iso_date(s) ==
  /\ Len(s) = 10
  /\ \A i \in {1, 2, 3, 4, 6, 7, 9, 10} : is_digit(s[i])
  /\ s[5] = "-" /\ s[8] = "-"
  /\ LET y == 1000 * digit_value(s[1]) + 100 * digit_value(s[2])
              + 10 * digit_value(s[3]) + digit_value(s[4])
         m == 10 * digit_value(s[6]) + digit_value(s[7])
         d == 10 * digit_value(s[9]) + digit_value(s[10])
     IN /\ y >= 1
        /\ m \in 1..12
        /\ d \in 1..days_in_month(y, m)

\* datetime.strptime(s, '%Y-%m-%d') of a text it accepts.
strptime(s) ==
  [ year  |-> 1000 * digit_value(s[1]) + 100 * digit_value(s[2])
              + 10 * digit_value(s[3]) + digit_value(s[4]),
    month |-> 10 * digit_value(s[6]) + digit_value(s[7]),
    day   |-> 10 * digit_value(s[9]) + digit_value(s[10]) ]

\* dt.strftime('%Y-%m-%d') for a four-digit year.
strftime(dt) ==
  << digits[((dt.year \div 1000) % 10) + 1], digits[((dt.year \div 100) % 10) + 1],
     digits[((dt.year \div 10) % 10) + 1], digits[(dt.year % 10) + 1],
     "-",
     digits[(dt.month \div 10) + 1], digits[(dt.month % 10) + 1],
     "-",
     digits[(dt.day \div 10) + 1], digits[(dt.day % 10) + 1] >>

\* (end_dt - start_dt).days
days_between(start_dt, end_dt) == toordinal(end_dt) - toordinal(start_dt)

\* start_dt + timedelta(days=n)
add_days(dt, n) == fromordinal(toordinal(dt) + n)

\* The characters of the model's texts in code-point order.
code_order ==
  << " ", "-", "0", "1", "2", "3", "4", "5", "6", "7", "8", "9",
     "A", "B", "C", "D", "E", "F", "G", "H", "I", "J", "K", "L", "M",
     "N", "O", "P", "Q", "R", "S", "T", "U", "V", "W", "X", "Y", "Z",
     "a", "b", "c", "d", "e", "f", "g", "h", "i", "j", "k", "l", "m",
     "n", "o", "p", "q", "r", "s", "t", "u", "v", "w", "x", "y", "z" >>

\* The rank of character c among them: ord(c) up to a monotone renumbering.
code_point(c) == CHOOSE i \in 1..Len(code_order) : code_order[i] = c

\* Python's str `<`: lexicographic by code point, a proper prefix first.
RECURSIVE str_less(_, _)
str_less(a, b) ==
  IF Len(b) = 0 THEN FALSE
  ELSE IF Len(a) = 0 THEN TRUE
  ELSE IF code_point(a[1]) # code_point(b[1])
    THEN code_point(a[1]) < code_point(b[1])
  ELSE str_less(Tail(a), Tail(b))

----------------------------------------------------------------------------
(***************************************************************************)
(* Python's process-wide `random` generator.  Its state is abstracted to   *)
(* one of RngStates values stepped by a fixed full-period recurrence, so   *)
(* that equal states yield equal draws and the stream after random.seed is *)
(* a function of the seed alone.  A raw draw x stands for the fraction     *)
(* x / RngStates of [0, 1) that random.random() would return.              *)
(***************************************************************************)
RngStates == 16

Raw == 0..(RngStates - 1)

rng_next(x) == (5 * x + 3) % RngStates

\* The generator state reached from x after k draws.
RECURSIVE rng_after(_, _)
rng_after(x, k) == IF k = 0 THEN x ELSE rng_after(rng_next(x), k - 1)

\* The raw values of the next n draws from state x, in draw order.
rng_stream(x, n) == [k \in 1..n |-> rng_after(x, k - 1)]

\* A plausible slip: the upper end is left out.
randint_exclusive(x, a, b) == a + ((x * (b - a)) \div RngStates)

\* random.randint(a, b): an integer of a..b, both ends included.
randint(x, a, b) == a + ((x * (b - a + 1)) \div RngStates)

\* random.uniform(a, b) = a + (b - a) * random(), in thousandths.
uniform(x, a, b) == a + (((b - a) * x) \div RngStates)

\* random.choice(seq)
choice(x, seq) == seq[1 + ((x * Len(seq)) \div RngStates)]

\* int(n / d): truncation toward zero.
py_int(n, d) == IF n >= 0 THEN n \div d ELSE -((-n) \div d)

\* A plausible slip: the lookup is skipped and the default is used.
dict_get_default_only(mapping, key, default) == default

\* dict.get(key, default)
dict_get(mapping, key, default) ==
  IF key \in DOMAIN mapping THEN mapping[key] ELSE default

----------------------------------------------------------------------------
(***************************************************************************)
(* SampleDataGenerator._generate_budget and _generate_actuals.  xs holds   *)
(* the raw values of the draws the call takes, in the order it takes them. *)
(***************************************************************************)
\* base_ranges, in the dict's insertion order.
base_ranges ==
  << [key |-> <<"r", "e", "s", "t", "a", "u", "r", "a", "n", "t">>,
      min |-> 5000, max |-> 50000],
     [key |-> <<"f", "i", "t", "n", "e", "s", "s">>,
      min |-> 10000, max |-> 80000],
     [key |-> <<"t", "e", "c", "h">>,
      min |-> 20000, max |-> 200000],
     [key |-> <<"f", "a", "s", "h", "i", "o", "n">>,
      min |-> 8000, max |-> 60000],
     [key |-> <<"a", "u", "t", "o", "m", "o", "t", "i", "v", "e">>,
      min |-> 15000, max |-> 150000],
     [key |-> <<"b", "e", "a", "u", "t", "y">>,
      min |-> 5000, max |-> 40000],
     [key |-> <<"h", "o", "m", "e">>,
      min |-> 10000, max |-> 100000],
     [key |-> <<"g", "e", "n", "e", "r", "a", "l">>,
      min |-> 8000, max |-> 80000] >>

\* A plausible slip: a later key overrides an earlier one (no break).
RECURSIVE business_key_last(_, _)
business_key_last(business_lower, i) ==
  IF i > Len(base_ranges) THEN Len(base_ranges)
  ELSE LET later == business_key_last(business_lower, i + 1)
       IN IF later < Len(base_ranges) \/ ~str_contains(base_ranges[i].key, business_lower)
            THEN later ELSE i

\* The loop over base_ranges.keys(): the index of the first key, from index
\* i on, contained in business_lower = business_type.lower(); that of
\* 'general' when none is.
RECURSIVE business_key_from(_, _)
business_key_from(business_lower, i) ==
  IF i > Len(base_ranges) THEN Len(base_ranges)
  ELSE IF str_contains(base_ranges[i].key, business_lower) THEN i
  ELSE business_key_from(business_lower, i + 1)

major_states == {"California", "New York", "Texas", "Florida", "Illinois"}

\* channel_multipliers: the dict literal draws all five factors, in this order.
channel_ranges ==
  << [channel |-> "Online", lo |-> 800, hi |-> 1200],
     [channel |-> "Retail", lo |-> 900, hi |-> 1100],
     [channel |-> "Direct Sales", lo |-> 1100, hi |-> 1400],
     [channel |-> "Partner", lo |-> 700, hi |-> 1000],
     [channel |-> "Wholesale", lo |-> 600, hi |-> 900] >>

\* _generate_budget: value is the budget returned and draws the number of
\* draws taken; the other fields are the call's local variables.
generate_budget(product, category, state, channel, description, xs) ==
  LET range == base_ranges[business_key_from(lower(description), 1)]
      base_budget == randint(xs[1], range.min, range.max)
      major == state \in major_states
      major_factor == uniform(xs[2], 1100, 1400)
      located == IF major
                   THEN py_int(base_budget * major_factor, 1000)
                   ELSE base_budget
      taken == IF major THEN 2 ELSE 1
      channel_multipliers ==
        [i \in 1..Len(channel_ranges) |->
           uniform(xs[taken + i], channel_ranges[i].lo, channel_ranges[i].hi)]
      k == CHOOSE i \in 1..Len(channel_ranges) : channel_ranges[i].channel = channel
  IN [ value |-> py_int(located * channel_multipliers[k], 1000),
       draws |-> taken + Len(channel_ranges),
       business_key |-> range.key,
       base_budget |-> base_budget,
       located |-> located,
       major_factor |-> IF major THEN major_factor ELSE 1000,
       channel_multiplier |-> channel_multipliers[k] ]

\* A plausible slip: the "-25% to +40%" variance is applied as the factor.
generate_actuals_variance_only(budget, x) ==
  LET variance_factor == uniform(x, -250, 400)
  IN py_int(budget * variance_factor, 1000)

\* _generate_actuals: one draw x.
generate_actuals(budget, x) ==
  LET variance_factor == uniform(x, 750, 1400)
  IN py_int(budget * variance_factor, 1000)

\* The most draws one record takes: date, state, city, product, channel, then
\* _generate_budget's, then _generate_actuals'.
RecordDraws == 5 + (2 + Len(channel_ranges)) + 1

\* Lines 443-446: the record's date, from one draw x.
random_date(a, x) ==
  LET start_dt == strptime(a.start_date)
      end_dt == strptime(a.end_date)
      days_diff == days_between(start_dt, end_dt)
      random_days == randint(x, 0, days_diff)
  IN add_days(start_dt, random_days)

\* One iteration of generate_data's loop: [record, draws].
generate_record(a, xs) ==
  LET record_date == random_date(a, xs[1])
      state == choice(xs[2], state_names)
      city == choice(xs[3], STATES_CITIES[state])
      product == choice(xs[4], a.products)
      category == dict_get(a.product_mapping, product, "General")
      channel == choice(xs[5], CHANNELS)
      b == generate_budget(product, category, state, channel, a.business_type,
                           [i \in 1..(2 + Len(channel_ranges)) |-> xs[5 + i]])
      actuals == generate_actuals(b.value, xs[5 + b.draws + 1])
  IN [ record |-> [ Date |-> strftime(record_date),
                    Product |-> product,
                    Category |-> category,
                    State |-> state,
                    City |-> city,
                    Budget |-> b.value,
                    Actuals |-> actuals,
                    Channel |-> channel ],
       draws |-> 5 + b.draws + 1 ]

----------------------------------------------------------------------------
(***************************************************************************)
(* SampleDataGenerator: construction and generate_data.                    *)
(***************************************************************************)
Orderings(n) == { p \in [1..n -> 1..n] : \A i, j \in 1..n : i # j => p[i] # p[j] }

\* df.sort_values('Date').reset_index(drop=True): the Date column holds the
\* strftime texts, compared as str.  The default sort kind (quicksort) is
\* deterministic but not stable: where it leaves rows of equal Date is fixed
\* by the algorithm, not by the call.  sort_ties stands for that fixed
\* placement: "kept" leaves equal rows in their original order, "reversed"
\* in the opposite one.
TiePlacements == {"kept", "reversed"}

row_before(rows, ties, i, j) ==
  \/ str_less(rows[i].Date, rows[j].Date)
  \/ /\ rows[i].Date = rows[j].Date
     /\ IF ties = "kept" THEN i < j ELSE i > j

\* A plausible slip: the rows are put in descending order.
sort_values_descending(rows, ties) ==
  LET p == CHOOSE q \in Orderings(Len(rows)) :
             \A i \in 1..(Len(rows) - 1) : row_before(rows, ties, q[i + 1], q[i])
  IN [i \in 1..Len(rows) |-> rows[p[i]]]

sort_values(rows, ties) ==
  LET p == CHOOSE q \in Orderings(Len(rows)) :
             \A i \in 1..(Len(rows) - 1) : row_before(rows, ties, q[i], q[i + 1])
  IN [i \in 1..Len(rows) |-> rows[p[i]]]

\* The dates main() and interactive_setup() pass are strftime texts.
WindowStart == [year |-> 2023, month |-> 12, day |-> 31]

StartDates == { strftime(WindowStart) }

EndDates == { strftime(add_days(WindowStart, k)) : k \in (-1)..MaxDays }

\* Descriptions passed to generate_data: "tech" is a budget key and a
\* classification keyword, "cozy cafe" only the latter.
BusinessInputs == { <<"t", "e", "c", "h">>, CozyCafe }

OutputFile == "sample_data.csv"

\* The keyword arguments of a generate_data call as main() builds them: the
\* products and mapping are those classified for the same description.
CallArguments ==
  { [ start_date |-> s,
      end_date |-> e,
      row_count |-> n,
      products |-> generate_products_and_categories(b, TRUE).products,
      product_mapping |-> generate_products_and_categories(b, TRUE).mapping,
      output_file |-> OutputFile,
      business_type |-> b ] :
      s \in StartDates, e \in EndDates, n \in 0..MaxRows, b \in BusinessInputs }

TotalCalls == Len(runs) + (IF gpc = "idle" THEN 0 ELSE 1)

InitGen ==
  /\ seed_state \in Raw
  /\ sort_ties \in TiePlacements
  /\ rng \in Raw
  /\ draws = 0
  /\ generators = << >>
  /\ gpc = "idle"
  /\ args = None
  /\ data = << >>
  /\ files = << >>
  /\ runs = << >>
  /\ ClassifyIdle /\ BudgetIdle /\ RankIdle /\ RecordIdle

\* A plausible slip: the constructor leaves the generator unseeded.
init_without_seed ==
  /\ gpc = "idle"
  /\ Len(generators) < MaxGenerators
  /\ generators' = Append(generators, [born |-> draws, calls |-> 0])
  /\ UNCHANGED <<rng, draws>>
  /\ UNCHANGED <<seed_state, sort_ties, gpc, args, data, files, runs, cvars, bvars, rvars, pvars>>

\* SampleDataGenerator.__init__: random.seed(42) resets the process-wide
\* generator.
SampleDataGenerator_init ==
  /\ gpc = "idle"
  /\ Len(generators) < MaxGenerators
  /\ generators' = Append(generators, [born |-> draws, calls |-> 0])
  /\ rng' = seed_state
  /\ UNCHANGED draws
  /\ UNCHANGED <<seed_state, sort_ties, gpc, args, data, files, runs, cvars, bvars, rvars, pvars>>

\* A plausible slip: the range check is left out.
generate_data_enter_unchecked(g, a) ==
  /\ gpc = "idle"
  /\ TotalCalls < MaxCalls
  /\ generators' = [generators EXCEPT ![g].calls = @ + 1]
  /\ args' = [ call |-> a, gen |-> g, nth |-> generators[g].calls + 1,
               draws_before |-> draws, rng_before |-> rng,
               files_before |-> files ]
  /\ data' = << >>
  /\ gpc' = "loop"
  /\ UNCHANGED <<runs, rng, seed_state, sort_ties, draws, files, cvars, bvars, rvars, pvars>>

\* generate_data, lines 427-440: parse the dates and check the range.
generate_data_enter(g, a) ==
  /\ gpc = "idle"
  /\ TotalCalls < MaxCalls
  /\ generators' = [generators EXCEPT ![g].calls = @ + 1]
  /\ LET start_dt == strptime(a.start_date)
         end_dt == strptime(a.end_date)
         entry == [ call |-> a, gen |-> g, nth |-> generators[g].calls + 1,
                    draws_before |-> draws, rng_before |-> rng,
                    files_before |-> files ]
     IN \/ /\ toordinal(start_dt) >= toordinal(end_dt)
           \* raise ValueError("Start date must be before end date")
           /\ runs' = Append(runs, [ entry |-> entry, outcome |-> "ValueError",
                                     generated |-> << >>, df |-> None,
                                     draws_after |-> draws, rng_after |-> rng,
                                     files_after |-> files ])
           /\ UNCHANGED <<gpc, args, data>>
        \/ /\ toordinal(start_dt) < toordinal(end_dt)
           /\ args' = entry
           /\ data' = << >>
           /\ gpc' = "loop"
           /\ UNCHANGED runs
  /\ UNCHANGED <<rng, seed_state, sort_ties, draws, files, cvars, bvars, rvars, pvars>>

GenerateDataEnter ==
  \E g \in 1..Len(generators) : \E a \in CallArguments : generate_data_enter(g, a)

\* One iteration of `for i in range(row_count)`.
GenerateDataLoop ==
  /\ gpc = "loop"
  /\ Len(data) < args.call.row_count
  /\ LET r == generate_record(args.call, rng_stream(rng, RecordDraws))
     IN /\ data' = Append(data, r.record)
        /\ rng' = rng_after(rng, r.draws)
        /\ draws' = draws + r.draws
  /\ UNCHANGED <<seed_state, sort_ties, generators, gpc, args, files, runs,
                 cvars, bvars, rvars, pvars>>

\* Lines 482-492, once the loop is over: build the DataFrame, sort it by
\* Date, write the CSV file.
GenerateDataSave ==
  /\ gpc = "loop"
  /\ Len(data) >= args.call.row_count
  /\ \/ /\ Len(data) = 0
        \* pd.DataFrame([]) has no 'Date' column: sort_values raises KeyError
        /\ runs' = Append(runs, [ entry |-> args, outcome |-> "KeyError",
                                  generated |-> data, df |-> None,
                                  draws_after |-> draws, rng_after |-> rng,
                                  files_after |-> files ])
        /\ UNCHANGED files
     \/ /\ Len(data) > 0
        /\ LET df == sort_values(data, sort_ties) IN
             /\ files' = [f \in DOMAIN files \cup {args.call.output_file} |->
                            IF f = args.call.output_file THEN df ELSE files[f]]
             /\ runs' = Append(runs, [ entry |-> args, outcome |-> "ok",
                                       generated |-> data, df |-> df,
                                       draws_after |-> draws, rng_after |-> rng,
                                       files_after |-> files' ])
  /\ gpc' = "idle"
  /\ args' = None
  /\ data' = << >>
  /\ UNCHANGED <<rng, seed_state, sort_ties, draws, generators, cvars, bvars, rvars, pvars>>

NextGen ==
  \/ SampleDataGenerator_init
  \/ GenerateDataEnter
  \/ GenerateDataLoop
  \/ GenerateDataSave

SpecGen == InitGen /\ [][NextGen]_vars

----------------------------------------------------------------------------
(***************************************************************************)
(* Claims about SampleDataGenerator, checked under SpecGen.                *)
(***************************************************************************)
Finished == { runs[i] : i \in 1..Len(runs) }

\* The call was the first on its generator and nothing drew from the
\* process-wide generator between that generator's construction and the call.
FreshFirstCall(r) ==
  /\ r.entry.nth = 1
  /\ r.entry.draws_before = generators[r.entry.gen].born

\* The calendar day a Date text names, as an ordinal.
DayOf(text) == toordinal(strptime(text))

RangeIsValid(a) == DayOf(a.start_date) < DayOf(a.end_date)

\* How often record x occurs in the sequence rows.
Occurrences(rows, x) == Cardinality({ i \in 1..Len(rows) : rows[i] = x })

IsPermutation(a, b) ==
  /\ Len(a) = Len(b)
  /\ \A i \in 1..Len(a) : Occurrences(a, a[i]) = Occurrences(b, a[i])

(***************************************************************************)
(* C2: two generate_data calls, each the first call on a freshly           *)
(* constructed SampleDataGenerator, given identical arguments, end the     *)
(* same way and produce datasets that are equal element for element.       *)
(***************************************************************************)
C2_Reproducible ==
  \A i, j \in 1..Len(runs) :
    ( /\ FreshFirstCall(runs[i])
      /\ FreshFirstCall(runs[j])
      /\ runs[i].entry.call = runs[j].entry.call )
    => /\ runs[i].outcome = runs[j].outcome
       /\ runs[i].df = runs[j].df
       /\ runs[i].generated = runs[j].generated

\* Reached: two such calls on two generators, each synthesizing MaxRows
\* records that the sort had to reorder.
C2_Witness ==
  \E i, j \in 1..Len(runs) :
    /\ i # j
    /\ FreshFirstCall(runs[i]) /\ FreshFirstCall(runs[j])
    /\ runs[i].entry.call = runs[j].entry.call
    /\ runs[i].outcome = "ok"
    /\ Len(runs[i].df) = MaxRows
    /\ runs[i].df # runs[i].generated
    /\ runs[i].df = runs[j].df

(***************************************************************************)
(* C3: a generate_data call with start_date >= end_date fails with the     *)
(* range error before anything is synthesized: it takes no draw from the   *)
(* random generator, builds no record, yields no dataset and writes no     *)
(* file.                                                                   *)
(***************************************************************************)
C3_InvalidRangeFailsFirst ==
  \A r \in Finished :
    ~RangeIsValid(r.entry.call) =>
      /\ r.outcome = "ValueError"
      /\ r.draws_after = r.entry.draws_before
      /\ r.rng_after = r.entry.rng_before
      /\ r.generated = << >>
      /\ r.df = None
      /\ r.files_after = r.entry.files_before

\* Reached: a call with equal dates failed, and one with start after end.
C3_Witness ==
  /\ \E r \in Finished :
       /\ r.entry.call.start_date = r.entry.call.end_date
       /\ r.entry.call.row_count > 0
       /\ r.outcome = "ValueError"
  /\ \E r \in Finished :
       /\ DayOf(r.entry.call.start_date) > DayOf(r.entry.call.end_date)
       /\ r.outcome = "ValueError"

(***************************************************************************)
(* C8: a generate_data call with a valid range and a positive row_count    *)
(* succeeds, and its dataset has exactly row_count records, is a           *)
(* permutation of the records synthesized in the loop, is non-decreasing   *)
(* by date, and is what the output file holds.                             *)
(***************************************************************************)
C8_SortedPermutation ==
  \A r \in Finished :
    (RangeIsValid(r.entry.call) /\ r.entry.call.row_count > 0) =>
      /\ r.outcome = "ok"
      /\ Len(r.df) = r.entry.call.row_count
      /\ IsPermutation(r.df, r.generated)
      /\ \A i \in 1..(Len(r.df) - 1) : DayOf(r.df[i].Date) <= DayOf(r.df[i + 1].Date)
      /\ r.files_after[r.entry.call.output_file] = r.df

\* Reached: a call synthesized a later date before an earlier one, across the
\* turn of the year, and the dataset has them in date order.
C8_Witness ==
  \E r \in Finished :
    /\ r.outcome = "ok"
    /\ Len(r.generated) = MaxRows
    /\ DayOf(r.generated[1].Date) > DayOf(r.generated[2].Date)
    /\ r.generated[1].Date[4] # r.generated[2].Date[4]
    /\ DayOf(r.df[1].Date) < DayOf(r.df[2].Date)

(***************************************************************************)
(* C9: every record generated for a window start_date < end_date has a     *)
(* date d with start_date <= d <= end_date, and every calendar day of the  *)
(* window, both ends included, is an outcome of the date draw.             *)
(***************************************************************************)
InWindow(rec, a) ==
  /\ DayOf(a.start_date) <= DayOf(rec.Date)
  /\ DayOf(rec.Date) <= DayOf(a.end_date)

C9_DateInWindow ==
  /\ gpc = "loop" =>
       /\ \A i \in 1..Len(data) : InWindow(data[i], args.call)
       /\ { toordinal(random_date(args.call, x)) : x \in Raw }
            = DayOf(args.call.start_date)..DayOf(args.call.end_date)
  /\ \A r \in Finished :
       r.outcome = "ok" => \A i \in 1..Len(r.df) : InWindow(r.df[i], r.entry.call)

\* Reached: one dataset holds a record dated start_date and one dated
\* end_date, for the longest window.
C9_Witness ==
  \E r \in Finished :
    /\ r.outcome = "ok"
    /\ DayOf(r.entry.call.end_date) - DayOf(r.entry.call.start_date) = MaxDays
    /\ \E i \in 1..Len(r.df) : r.df[i].Date = r.entry.call.start_date
    /\ \E i \in 1..Len(r.df) : r.df[i].Date = r.entry.call.end_date


(***************************************************************************)
(* C13: runs in one process do not interfere: generate_data calls given    *)
(* identical arguments produce the same dataset whether a call is the      *)
(* first on its generator, a later call on the same generator, or a call   *)
(* made after another generator was constructed or used.                   *)
(***************************************************************************)
C13_RunsDoNotInterfere ==
  \A i, j \in 1..Len(runs) :
    runs[i].entry.call = runs[j].entry.call
    => /\ runs[i].outcome = runs[j].outcome
       /\ runs[i].df = runs[j].df

----------------------------------------------------------------------------
(***************************************************************************)
(* SpecBudget: _generate_budget followed by _generate_actuals, as          *)
(* generate_data calls them (lines 460-461), for chosen arguments and      *)
(* chosen values of every draw.                                            *)
(***************************************************************************)
\* Raw values tried for each draw: the lowest, a middle one and the highest.
RawSamples == {0, RngStates \div 2, RngStates - 1}

\* One major state and one that is not.
StateSamples == {"California", "Alabama"}

\* Descriptions tried: some naming one budget key, one naming none, one
\* naming two in capitals.
BudgetDescriptions ==
  { <<"r", "e", "s", "t", "a", "u", "r", "a", "n", "t">>,
    <<"t", "e", "c", "h">>,
    <<"b", "e", "a", "u", "t", "y">>,
    <<"g", "e", "n", "e", "r", "a", "l">>,
    CozyCafe,
    <<"H", "o", "m", "e", " ", "T", "e", "c", "h">> }

\* The arguments of _generate_budget for a record of the given description:
\* a product of its profile and that product's category.
BudgetArguments ==
  { [ product |-> generate_products_and_categories(b, TRUE).products[1],
      category |-> generate_products_and_categories(b, TRUE).categories[1],
      state |-> s,
      channel |-> CHANNELS[c],
      business_type |-> b ] :
      s \in StateSamples, c \in 1..Len(CHANNELS), b \in BudgetDescriptions }

InitBudget ==
  /\ bin \in BudgetArguments
  /\ bout = << >>
  /\ ClassifyIdle /\ GenIdle /\ RankIdle /\ RecordIdle

\* Lines 460-461 for one record: budget, then actuals from it.
GenerateBudgetAndActuals ==
  /\ bout = << >>
  /\ \E xs \in [1..(2 + Len(channel_ranges) + 1) -> RawSamples] :
       LET b == generate_budget(bin.product, bin.category, bin.state, bin.channel,
                                bin.business_type, xs)
           actuals == generate_actuals(b.value, xs[b.draws + 1])
       IN bout' = << [ budget |-> b.value,
                    actuals |-> actuals,
                    business_key |-> b.business_key,
                    base_budget |-> b.base_budget,
                    located |-> b.located,
                    base_draw |-> xs[1],
                    major_factor |-> b.major_factor,
                    channel_multiplier |-> b.channel_multiplier,
                    variance_draw |-> xs[b.draws + 1] ] >>
  /\ UNCHANGED <<bin, cvars, gvars, rvars, pvars>>

NextBudget == GenerateBudgetAndActuals

SpecBudget == InitBudget /\ [][NextBudget]_vars

(***************************************************************************)
(* C10: every generated record has an integer budget >= 0 and an integer   *)
(* actuals >= 0, whatever the business type, state, channel and draws.     *)
(***************************************************************************)
C10_NonNegative ==
  \A i \in 1..Len(bout) :
    /\ bout[i].budget \in Nat
    /\ bout[i].actuals \in Nat

\* Reached: the smallest base of the smallest range, outside the major
\* states, through the channel with the lowest factor, with the lowest
\* variance draw: budget 3000 and actuals 2250.
C10_Witness ==
  /\ Len(bout) = 1
  /\ bin.state = "Alabama"
  /\ bin.channel = "Wholesale"
  /\ bout[1].base_budget = 5000
  /\ bout[1].budget = 3000
  /\ bout[1].actuals = 2250


(***************************************************************************)
(* C16: the budget is base * m * c truncated to an integer once, at the    *)
(* end: base the integer drawn from the business range, m the major-state  *)
(* factor (1 outside the major states) and c the factor drawn for the      *)
(* record's channel; nothing is truncated between the two multiplications. *)
(* Factors are in thousandths.                                             *)
(***************************************************************************)
\* base * m * c truncated once, for factors m and c in thousandths; the
\* product is taken in two steps to stay within 32-bit integers:
\* floor(b * m * c / 10^6) = floor((q * c + floor(r * c / 1000)) / 1000)
\* where b * m = 1000 * q + r.
TruncatedProduct(base, m, c) ==
  LET q == (base * m) \div 1000
      r == (base * m) % 1000
  IN (q * c + ((r * c) \div 1000)) \div 1000

C16_SingleTruncation ==
  \A i \in 1..Len(bout) :
    bout[i].budget
      = TruncatedProduct(bout[i].base_budget, bout[i].major_factor,
                         bout[i].channel_multiplier)

\* The first key of base_ranges occurring in d, letter case ignored; the
\* last key, 'general', when none occurs.
ExpectedRange(d) ==
  IF \E k \in 1..Len(base_ranges) : \E off \in 0..Len(d) :
       OccursAt(base_ranges[k].key, d, off)
    THEN base_ranges[CHOOSE k \in 1..Len(base_ranges) :
           /\ \E off \in 0..Len(d) : OccursAt(base_ranges[k].key, d, off)
           /\ \A j \in 1..(k - 1) : \A off \in 0..Len(d) :
                ~OccursAt(base_ranges[j].key, d, off)]
    ELSE base_ranges[Len(base_ranges)]

(***************************************************************************)
(* C17: the base budget is an integer of the inclusive (min, max) range of *)
(* the first key, in the order restaurant, fitness, tech, fashion,         *)
(* automotive, beauty, home, general, that occurs in the lower-cased       *)
(* description, and of the generic range (8000, 80000) when none occurs;   *)
(* the key is found from the description alone, whatever profile the       *)
(* record's product and category come from.  The lowest draw gives min and *)
(* the highest draw the top of the max - min + 1 values drawn from.        *)
(***************************************************************************)
C17_BaseRangeFromDescription ==
  /\ [k \in 1..Len(base_ranges) |-> base_ranges[k].key]
       = << <<"r", "e", "s", "t", "a", "u", "r", "a", "n", "t">>,
            <<"f", "i", "t", "n", "e", "s", "s">>,
            <<"t", "e", "c", "h">>,
            <<"f", "a", "s", "h", "i", "o", "n">>,
            <<"a", "u", "t", "o", "m", "o", "t", "i", "v", "e">>,
            <<"b", "e", "a", "u", "t", "y">>,
            <<"h", "o", "m", "e">>,
            <<"g", "e", "n", "e", "r", "a", "l">> >>
  /\ base_ranges[Len(base_ranges)].min = 8000
  /\ base_ranges[Len(base_ranges)].max = 80000
  /\ \A i \in 1..Len(bout) :
       LET range == ExpectedRange(bin.business_type) IN
       /\ bout[i].business_key = range.key
       /\ bout[i].base_budget \in range.min..range.max
       /\ bout[i].base_draw = 0 => bout[i].base_budget = range.min
       /\ bout[i].base_draw = RngStates - 1 =>
            bout[i].base_budget = range.min
              + (((RngStates - 1) * (range.max - range.min + 1)) \div RngStates)

\* Reached: "cozy cafe", classified as a restaurant, holds no budget key:
\* a restaurant product gets the lowest base of the generic range.
C17_Witness ==
  /\ Len(bout) = 1
  /\ bin.business_type = CozyCafe
  /\ bin.product = generate_restaurant_data.products[1]
  /\ bout[1].business_key = <<"g", "e", "n", "e", "r", "a", "l">>
  /\ bout[1].base_budget = 8000
----------------------------------------------------------------------------
(***************************************************************************)
(* SpecRecord: one iteration of generate_data's loop (lines 442-475) for a *)
(* profile of the catalog, as main() passes it on (lines 665-675), from    *)
(* every state of the generator.                                           *)
(***************************************************************************)
\* One description per profile of the catalog: a keyword of each tag, and
\* one that holds no keyword.
ProfileDescriptions ==
  { <<"f", "o", "o", "d">>,
    <<"g", "y", "m">>,
    <<"s", "o", "f", "t", "w", "a", "r", "e">>,
    <<"c", "l", "o", "t", "h", "i", "n", "g">>,
    <<"c", "a", "r">>,
    <<"s", "a", "l", "o", "n">>,
    <<"g", "a", "r", "d", "e", "n">>,
    <<"g", "e", "n", "e", "r", "a", "l">> }

\* main(): the profile classified for the description and the arguments of
\* generate_data built from it.
RecordInputs ==
  { LET profile == generate_products_and_categories(b, TRUE)
    IN << [ profile |-> profile,
         x |-> x,
         call |-> [ start_date |-> strftime(WindowStart),
                    end_date |-> strftime(add_days(WindowStart, MaxDays)),
                    row_count |-> 1,
                    products |-> profile.products,
                    product_mapping |-> profile.mapping,
                    output_file |-> OutputFile,
                    business_type |-> b ] ] >> :
    b \in ProfileDescriptions, x \in Raw }

InitRecord ==
  /\ pin \in RecordInputs
  /\ pout = << >>
  /\ ClassifyIdle /\ GenIdle /\ BudgetIdle /\ RankIdle

\* The loop body, once: the record built from the generator's next draws.
GenerateRecord ==
  /\ pout = << >>
  /\ pout' = << generate_record(pin[1].call, rng_stream(pin[1].x, RecordDraws)).record >>
  /\ UNCHANGED <<pin, cvars, gvars, bvars, rvars>>

NextRecord == GenerateRecord

SpecRecord == InitRecord /\ [][NextRecord]_vars

\* The elements of a sequence.
Range(seq) == { seq[i] : i \in 1..Len(seq) }

\* The eight profiles of the catalog.
CatalogProfiles ==
  { generate_restaurant_data, generate_fitness_data, generate_tech_data,
    generate_fashion_data, generate_automotive_data, generate_beauty_data,
    generate_home_data, generate_generic_data }

(***************************************************************************)
(* C11: every profile of the catalog (the seven tag profiles and the       *)
(* generic one) lists 15 distinct products and 5 categories and maps every *)
(* product to one of these categories; so a record generated from the      *)
(* profile carries the category its product is mapped to, never the        *)
(* 'General' default.                                                      *)
(***************************************************************************)
C11_CategoryFromMapping ==
  /\ \A p \in CatalogProfiles :
       /\ Len(p.products) = 15
       /\ Cardinality(Range(p.products)) = 15
       /\ Len(p.categories) = 5
       /\ Cardinality(Range(p.categories)) = 5
       /\ \A i \in 1..Len(p.products) :
            /\ p.products[i] \in DOMAIN p.mapping
            /\ p.mapping[p.products[i]] \in Range(p.categories)
  /\ \A i \in 1..Len(pin) : pin[i].profile \in CatalogProfiles
  /\ \A i \in 1..Len(pout) :
       /\ pout[i].Product \in Range(pin[1].profile.products)
       /\ pout[i].Category = pin[1].profile.mapping[pout[i].Product]
       /\ pout[i].Category \in Range(pin[1].profile.categories)
       /\ pout[i].Category # "General"

\* Reached: a record of the generic profile whose product is the last of
\* DEFAULT_PRODUCTS, with the category the fallback mapping gives it.
C11_Witness ==
  /\ Len(pout) = 1
  /\ pin[1].profile = generate_generic_data
  /\ pout[1].Product = DEFAULT_PRODUCTS[Len(DEFAULT_PRODUCTS)]
  /\ pout[1].Category = create_fallback_mapping[pout[1].Product]
----------------------------------------------------------------------------
(***************************************************************************)
(* analyze_reg.py.  A CSV file is a sequence of rows of text cells [Date,  *)
(* Product, Actuals]; an empty cell is the empty text.  A missing value    *)
(* (pandas' NaN / NaT) is << >> and a present value v is <<v>>.            *)
(***************************************************************************)
NaN == << >>

\* Text that pd.read_csv parses as an integer.
is_int_text(s) ==
  /\ Len(s) >= 1
  /\ IF s[1] = "-"
       THEN Len(s) >= 2 /\ \A i \in 2..Len(s) : is_digit(s[i])
       ELSE \A i \in 1..Len(s) : is_digit(s[i])

RECURSIVE digits_value(_)
digits_value(s) ==
  IF Len(s) = 0 THEN 0
  ELSE 10 * digits_value(SubSeq(s, 1, Len(s) - 1)) + digit_value(s[Len(s)])

int_of_text(s) == IF s[1] = "-" THEN -digits_value(Tail(s)) ELSE digits_value(s)

\* pd.read_csv's type of the Actuals column: numeric when every cell is
\* empty or a number, object (str) as soon as one cell is other text.
actuals_is_numeric(rows) ==
  \A i \in 1..Len(rows) : rows[i].Actuals = << >> \/ is_int_text(rows[i].Actuals)

\* pd.to_datetime(df['Date']) raises on text that is no date.
dates_parse(rows) ==
  \A i \in 1..Len(rows) : rows[i].Date = << >> \/ is_iso_date(rows[i].Date)

\* Lines 11-15: the frame with the Year, Quarter and Month columns, for rows
\* whose dates parse and whose Actuals column is numeric.
read_frame(rows) ==
  [i \in 1..Len(rows) |->
     LET missing == rows[i].Date = << >>
         dt == strptime(rows[i].Date)
     IN [ Product |-> IF rows[i].Product = << >> THEN NaN ELSE <<rows[i].Product>>,
          Actuals |-> IF rows[i].Actuals = << >> THEN NaN
                      ELSE <<int_of_text(rows[i].Actuals)>>,
          Year |-> IF missing THEN NaN ELSE <<dt.year>>,
          Quarter |-> IF missing THEN NaN ELSE <<((dt.month - 1) \div 3) + 1>>,
          Month |-> IF missing THEN NaN ELSE <<dt.month>> ]]

Granularities == {"Year", "Quarter", "Month"}

\* A plausible slip: quarters and months are grouped without the year.
period_of_year_only(row, granularity) ==
  IF row.Year = NaN THEN NaN
  ELSE IF granularity = "Year" THEN <<<<row.Year[1]>>>>
  ELSE IF granularity = "Quarter" THEN <<<<row.Quarter[1]>>>>
  ELSE <<<<row.Month[1]>>>>

\* The period columns of a grouping: ['Year'], ['Year', 'Quarter'] or
\* ['Year', 'Month'].  The period of a frame row, NaN when a column is.
period_of(row, granularity) ==
  IF row.Year = NaN THEN NaN
  ELSE IF granularity = "Year" THEN <<<<row.Year[1]>>>>
  ELSE IF granularity = "Quarter" THEN <<<<row.Year[1], row.Quarter[1]>>>>
  ELSE <<<<row.Year[1], row.Month[1]>>>>

\* Order of group keys: by the period columns left to right, then Product.
RECURSIVE tuple_less(_, _)
tuple_less(a, b) ==
  IF Len(a) = 0 \/ Len(b) = 0 THEN Len(a) < Len(b)
  ELSE IF a[1] # b[1] THEN a[1] < b[1]
  ELSE tuple_less(Tail(a), Tail(b))

key_less(k, l) ==
  \/ tuple_less(k.period, l.period)
  \/ k.period = l.period /\ str_less(k.Product, l.Product)

RECURSIVE sorted_keys(_)
sorted_keys(S) ==
  IF S = {} THEN << >>
  ELSE LET first == CHOOSE k \in S : \A l \in S \ {k} : key_less(k, l)
       IN <<first>> \o sorted_keys(S \ {first})

\* A plausible slip: the aggregate keeps the last row's amount of each key.
sum_actuals_last(frame, I) ==
  IF I = {} THEN 0
  ELSE LET i == CHOOSE j \in I : \A k \in I : k <= j
       IN IF frame[i].Actuals = NaN THEN 0 ELSE frame[i].Actuals[1]

\* Series.sum(): NaN cells are skipped, and the sum of nothing is 0.
RECURSIVE sum_actuals(_, _)
sum_actuals(frame, I) ==
  IF I = {} THEN 0
  ELSE LET i == CHOOSE j \in I : TRUE
       IN (IF frame[i].Actuals = NaN THEN 0 ELSE frame[i].Actuals[1])
          + sum_actuals(frame, I \ {i})

\* df.groupby([period columns, 'Product']).agg({'Actuals': 'sum'})
\* .reset_index(): rows with NaN in a key column are left out; one row per
\* key, in key order.
groupby_sum(frame, granularity) ==
  LET kept == { i \in 1..Len(frame) :
                  period_of(frame[i], granularity) # NaN /\ frame[i].Product # NaN }
      keys == { [ period |-> period_of(frame[i], granularity)[1],
                  Product |-> frame[i].Product[1] ] : i \in kept }
      order == sorted_keys(keys)
  IN [n \in 1..Len(order) |->
        [ period |-> order[n].period,
          Product |-> order[n].Product,
          Actuals |-> sum_actuals(frame,
                        { i \in kept :
                            /\ period_of(frame[i], granularity)[1] = order[n].period
                            /\ frame[i].Product[1] = order[n].Product }) ]]

\* A plausible slip: the fraction is not scaled to a percentage.
percentage_unscaled(x, total) ==
  IF total # 0 THEN [kind |-> "number", num |-> x, den |-> total]
  ELSE [kind |-> "nan", num |-> 0, den |-> 0]

\* x / total * 100 on numpy floats: no exception on a zero total.  A number
\* is kept as the exact fraction num / den.
percentage(x, total) ==
  IF total # 0 THEN [kind |-> "number", num |-> 100 * x, den |-> total]
  ELSE IF x = 0 THEN [kind |-> "nan", num |-> 0, den |-> 0]
  ELSE IF x > 0 THEN [kind |-> "inf", num |-> 0, den |-> 0]
  ELSE [kind |-> "-inf", num |-> 0, den |-> 0]

RECURSIVE sum_column(_)
sum_column(group) ==
  IF Len(group) = 0 THEN 0 ELSE group[1].Actuals + sum_column(Tail(group))

\* Series.idxmax() / idxmin(): the first row holding the extreme value.
idxmin(group) ==
  CHOOSE i \in 1..Len(group) :
    /\ \A j \in 1..Len(group) : group[j].Actuals >= group[i].Actuals
    /\ \A j \in 1..(i - 1) : group[j].Actuals # group[i].Actuals

\* A plausible slip: of rows sharing the largest value the last one is taken.
idxmax_last(group) ==
  CHOOSE i \in 1..Len(group) :
    /\ \A j \in 1..Len(group) : group[j].Actuals <= group[i].Actuals
    /\ \A j \in (i + 1)..Len(group) : group[j].Actuals # group[i].Actuals

\* A plausible slip: the top product is looked up with idxmin.
idxmax_swapped(group) == idxmin(group)

idxmax(group) ==
  CHOOSE i \in 1..Len(group) :
    /\ \A j \in 1..Len(group) : group[j].Actuals <= group[i].Actuals
    /\ \A j \in 1..(i - 1) : group[j].Actuals # group[i].Actuals

\* get_top_bottom_products(grouped_df)
get_top_bottom_products(group) ==
  LET total_actuals == sum_column(group)
      with_pct == [i \in 1..Len(group) |->
                     [ Product |-> group[i].Product,
                       Actuals |-> group[i].Actuals,
                       Percentage |-> percentage(group[i].Actuals, total_actuals) ]]
  IN [ top |-> with_pct[idxmax(group)], bottom |-> with_pct[idxmin(group)] ]

RECURSIVE sorted_periods(_)
sorted_periods(S) ==
  IF S = {} THEN << >>
  ELSE LET first == CHOOSE p \in S : \A q \in S \ {p} : tuple_less(p, q)
       IN <<first>> \o sorted_periods(S \ {first})

\* One of the three sections of analyze_product_performance: group, then one
\* printed block per period, in the order the outer groupby yields them.
analysis(frame, granularity) ==
  LET groups == groupby_sum(frame, granularity)
      periods == sorted_periods({ groups[n].period : n \in 1..Len(groups) })
  IN [k \in 1..Len(periods) |->
        LET group == SelectSeq(groups, LAMBDA g : g.period = periods[k])
            tb == get_top_bottom_products(group)
        IN [ period |-> periods[k], top |-> tb.top, bottom |-> tb.bottom ]]

NoOutput == [Year |-> << >>, Quarter |-> << >>, Month |-> << >>]

\* analyze_product_performance(file_path), from entry to return or raise.
analyze_product_performance(rows) ==
  IF ~dates_parse(rows)
    THEN [outcome |-> "ValueError", printed |-> NoOutput]
  ELSE IF ~actuals_is_numeric(rows)
    \* the Actuals column holds str: the first group's division raises
    THEN IF \E i \in 1..Len(rows) : rows[i].Date # << >> /\ rows[i].Product # << >>
           THEN [outcome |-> "TypeError", printed |-> NoOutput]
           ELSE [outcome |-> "ok", printed |-> NoOutput]
  ELSE LET frame == read_frame(rows)
       IN [ outcome |-> "ok",
            printed |-> [g \in Granularities |-> analysis(frame, g)] ]

----------------------------------------------------------------------------
(***************************************************************************)
(* SpecRank: one run of analyze_product_performance on a CSV file.         *)
(***************************************************************************)
\* Rows that conform to the schema: two years, two quarters and months of
\* one year, the same quarter and month number in both years.
DateCells ==
  { <<"2", "0", "2", "4", "-", "0", "1", "-", "1", "5">>,
    <<"2", "0", "2", "4", "-", "0", "5", "-", "1", "0">>,
    <<"2", "0", "2", "5", "-", "0", "1", "-", "2", "0">> }

ProductCells == { <<"A">>, <<"B">> }

ActualsCells == { <<"0">>, <<"3", "0">>, <<"5", "0">>, <<"1", "0", "0">> }

RecordRows == [Date : DateCells, Product : ProductCells, Actuals : ActualsCells]

\* Rows with one defect each: a cell left empty, or text that is no date or
\* no number.
MalformedRows ==
  LET good == [ Date |-> <<"2", "0", "2", "4", "-", "0", "1", "-", "1", "5">>,
                Product |-> <<"A">>,
                Actuals |-> <<"1", "0", "0">> ]
  IN { [good EXCEPT !.Date = << >>],
       [good EXCEPT !.Date = <<"a", "b", "c">>],
       [good EXCEPT !.Product = << >>],
       [good EXCEPT !.Actuals = << >>],
       [good EXCEPT !.Actuals = <<"a", "b", "c">>] }

CsvFiles ==
  UNION { [1..n -> RecordRows \cup MalformedRows] : n \in 0..MaxRecords }

InitRank ==
  /\ csv \in CsvFiles
  /\ rpc = "start"
  /\ report = None
  /\ ClassifyIdle /\ GenIdle /\ BudgetIdle /\ RecordIdle

AnalyzeProductPerformance ==
  /\ rpc = "start"
  /\ report' = analyze_product_performance(csv)
  /\ rpc' = "done"
  /\ UNCHANGED <<csv, cvars, gvars, bvars, pvars>>

NextRank == AnalyzeProductPerformance

SpecRank == InitRank /\ [][NextRank]_vars

----------------------------------------------------------------------------
(***************************************************************************)
(* Claims about the ranker, checked under SpecRank.  They are stated on    *)
(* the text of the CSV rows, not on the ranker's frame.                    *)
(***************************************************************************)
YearOfText(date) ==
  1000 * digit_value(date[1]) + 100 * digit_value(date[2])
  + 10 * digit_value(date[3]) + digit_value(date[4])

MonthOfText(date) == 10 * digit_value(date[6]) + digit_value(date[7])

\* The period a dated row falls in: <<year>>, <<year, quarter>> or
\* <<year, month>>.
PeriodOfRow(row, granularity) ==
  IF granularity = "Year" THEN <<YearOfText(row.Date)>>
  ELSE IF granularity = "Quarter"
    THEN <<YearOfText(row.Date), (MonthOfText(row.Date) + 2) \div 3>>
  ELSE <<YearOfText(row.Date), MonthOfText(row.Date)>>

\* A row that carries a date, a product and a number.
IsRecord(row) ==
  /\ is_iso_date(row.Date)
  /\ row.Product # << >>
  /\ is_int_text(row.Actuals)

\* Rows that can be attributed to a period and a product.
Attributed == { i \in 1..Len(csv) : is_iso_date(csv[i].Date) /\ csv[i].Product # << >> }

AmountOf(row) == IF is_int_text(row.Actuals) THEN int_of_text(row.Actuals) ELSE 0

RECURSIVE SumAmounts(_)
SumAmounts(I) ==
  IF I = {} THEN 0
  ELSE LET i == CHOOSE j \in I : TRUE IN AmountOf(csv[i]) + SumAmounts(I \ {i})

\* Sum of Actuals over the rows of product p in period q.
ProductTotal(granularity, q, p) ==
  SumAmounts({ i \in Attributed :
                 PeriodOfRow(csv[i], granularity) = q /\ csv[i].Product = p })

ProductsIn(granularity, q) ==
  { csv[i].Product : i \in { j \in Attributed : PeriodOfRow(csv[j], granularity) = q } }

PeriodsPresent(granularity) ==
  { PeriodOfRow(csv[i], granularity) : i \in Attributed }

PeriodTotal(granularity, q) ==
  SumAmounts({ i \in Attributed : PeriodOfRow(csv[i], granularity) = q })

\* Months since year 0 at which a period starts.
StartMonth(granularity, q) ==
  IF granularity = "Year" THEN 12 * q[1]
  ELSE IF granularity = "Quarter" THEN 12 * q[1] + 3 * (q[2] - 1)
  ELSE 12 * q[1] + (q[2] - 1)

Ranked == rpc = "done" /\ report.outcome = "ok"

(***************************************************************************)
(* C4: in every period reported, at any granularity, top_amount is the     *)
(* largest and bottom_amount the smallest of the per-product totals of     *)
(* Actuals of that period, each the total of the product named, so         *)
(* top_amount >= every product's total >= bottom_amount.                   *)
(***************************************************************************)
C4_TopIsMaxBottomIsMin ==
  Ranked =>
    \A g \in Granularities : \A k \in 1..Len(report.printed[g]) :
      LET r == report.printed[g][k] IN
      /\ r.top.Product \in ProductsIn(g, r.period)
      /\ r.bottom.Product \in ProductsIn(g, r.period)
      /\ r.top.Actuals = ProductTotal(g, r.period, r.top.Product)
      /\ r.bottom.Actuals = ProductTotal(g, r.period, r.bottom.Product)
      /\ \A p \in ProductsIn(g, r.period) :
           /\ r.top.Actuals >= ProductTotal(g, r.period, p)
           /\ r.bottom.Actuals <= ProductTotal(g, r.period, p)
      /\ r.top.Actuals >= r.bottom.Actuals

\* Reached: records A:100, A:50, B:30 of one month ranked: top A with 150,
\* bottom B with 30.
C4_Witness ==
  /\ Ranked
  /\ Len(csv) = 3
  /\ \A i \in 1..3 : csv[i].Date = csv[1].Date /\ IsRecord(csv[i])
  /\ Len(report.printed["Month"]) = 1
  /\ report.printed["Month"][1].top.Product = <<"A">>
  /\ report.printed["Month"][1].top.Actuals = 150
  /\ report.printed["Month"][1].bottom.Product = <<"B">>
  /\ report.printed["Month"][1].bottom.Actuals = 30

(***************************************************************************)
(* C5: for a dataset of records the ranker does not fail and, for each     *)
(* granularity, reports each period present in the dataset exactly once,   *)
(* no other period, in chronological order; quarters and months of         *)
(* different years are different periods with their own totals; a dataset  *)
(* with no records gives three empty report sequences.                     *)
(***************************************************************************)
C5_OneReportPerPeriod ==
  (rpc = "done" /\ \A i \in 1..Len(csv) : IsRecord(csv[i])) =>
    /\ report.outcome = "ok"
    /\ \A g \in Granularities :
         LET out == report.printed[g] IN
         /\ { out[k].period : k \in 1..Len(out) } = PeriodsPresent(g)
         /\ Len(out) = Cardinality(PeriodsPresent(g))
         /\ \A k \in 1..(Len(out) - 1) :
              StartMonth(g, out[k].period) < StartMonth(g, out[k + 1].period)
         /\ \A k \in 1..Len(out) :
              out[k].top.Actuals = ProductTotal(g, out[k].period, out[k].top.Product)
         /\ (Len(csv) = 0 => out = << >>)

\* Reached: rows of January 2025, May 2024 and January 2024, in that order,
\* give two year reports and three quarter and month reports, oldest first.
C5_Witness ==
  /\ Ranked
  /\ Len(csv) = 3
  /\ \A i \in 1..3 : IsRecord(csv[i])
  /\ YearOfText(csv[1].Date) = 2025
  /\ Len(report.printed["Year"]) = 2
  /\ [k \in 1..Len(report.printed["Quarter"]) |-> report.printed["Quarter"][k].period]
       = << <<2024, 1>>, <<2024, 2>>, <<2025, 1>> >>
  /\ [k \in 1..Len(report.printed["Month"]) |-> report.printed["Month"][k].period]
       = << <<2024, 1>>, <<2024, 5>>, <<2025, 1>> >>

(***************************************************************************)
(* C6: when the Actuals of a period sum to 0, the share reported for its   *)
(* top and its bottom product is the number 0, not NaN or an infinity.     *)
(***************************************************************************)
IsZeroShare(pct) == pct.kind = "number" /\ pct.num = 0

C6_ZeroTotalShareIsZero ==
  Ranked =>
    \A g \in Granularities : \A k \in 1..Len(report.printed[g]) :
      LET r == report.printed[g][k] IN
      PeriodTotal(g, r.period) = 0 =>
        /\ IsZeroShare(r.top.Percentage)
        /\ IsZeroShare(r.bottom.Percentage)

(***************************************************************************)
(* C7: a row that lacks Date, Product or Actuals, or whose date or number  *)
(* does not parse, makes the whole ranking run fail; no ranking is         *)
(* reported from the remaining rows.                                       *)
(***************************************************************************)
C7_MalformedRowIsFatal ==
  (rpc = "done" /\ \E i \in 1..Len(csv) : ~IsRecord(csv[i])) =>
    report.outcome # "ok"


\* The rows of a file in another order.
Permuted(rows, p) == [i \in 1..Len(rows) |-> rows[p[i]]]

(***************************************************************************)
(* C12: the ranker's result depends only on the multiset of rows: ranking  *)
(* the rows in any other order, or in the same order again, gives the same *)
(* outcome and the same period reports (periods, top and bottom products,  *)
(* amounts and shares).                                                    *)
(***************************************************************************)
C12_OrderIrrelevant ==
  rpc = "done" =>
    \A p \in Orderings(Len(csv)) :
      analyze_product_performance(Permuted(csv, p)) = report

\* Reached: three different rows, the newest period first and the two rows
\* of product A apart, ranked into two months with A's amounts added up.
C12_Witness ==
  /\ Ranked
  /\ Len(csv) = 3
  /\ \A i \in 1..3 : IsRecord(csv[i])
  /\ csv[1].Product = <<"A">> /\ csv[1].Actuals = <<"5", "0">>
  /\ csv[2].Product = <<"B">> /\ MonthOfText(csv[2].Date) = 5
  /\ csv[3].Product = <<"A">> /\ csv[3].Actuals = <<"1", "0", "0">>
  /\ csv[1].Date = csv[3].Date /\ MonthOfText(csv[1].Date) = 1
  /\ YearOfText(csv[1].Date) = 2024
  /\ Len(report.printed["Month"]) = 2
  /\ report.printed["Month"][1].top.Actuals = 150
  /\ Len(report.printed["Year"]) = 1

\* The share pct is the number 100 * amount / total.
IsShareOf(pct, amount, total) ==
  /\ pct.kind = "number"
  /\ pct.den # 0
  /\ pct.num * total = 100 * amount * pct.den

(***************************************************************************)
(* C14: in every reported period whose total is > 0, the share of the top  *)
(* (bottom) product is 100 * that product's total / the period's total,    *)
(* the total being that of the same period only; so the shares of the      *)
(* products of a period add up to 100.  Records A:100, A:50, B:30 of one   *)
(* period give top A, 150, 150/180 and bottom B, 30, 30/180.               *)
(***************************************************************************)
C14_ShareOfPeriodTotal ==
  Ranked =>
    \A g \in Granularities : \A k \in 1..Len(report.printed[g]) :
      LET r == report.printed[g][k]
          total == PeriodTotal(g, r.period)
      IN total > 0 =>
           /\ IsShareOf(r.top.Percentage,
                        ProductTotal(g, r.period, r.top.Product), total)
           /\ IsShareOf(r.bottom.Percentage,
                        ProductTotal(g, r.period, r.bottom.Product), total)
           /\ ProductsIn(g, r.period) = {r.top.Product} =>
                r.top.Percentage.num = 100 * r.top.Percentage.den
           /\ ( /\ r.top.Product # r.bottom.Product
                /\ ProductsIn(g, r.period) = {r.top.Product, r.bottom.Product} ) =>
                r.top.Percentage.num * r.bottom.Percentage.den
                  + r.bottom.Percentage.num * r.top.Percentage.den
                  = 100 * r.top.Percentage.den * r.bottom.Percentage.den

\* Reached: the rows A:100, A:50, B:30 of January 2024 and nothing else:
\* top A with 150 and 100 * 150 / 180, bottom B with 30 and 100 * 30 / 180.
C14_Witness ==
  /\ Ranked
  /\ Len(csv) = 3
  /\ \A i \in 1..3 : IsRecord(csv[i])
  /\ \A i \in 1..3 : MonthOfText(csv[i].Date) = 1 /\ YearOfText(csv[i].Date) = 2024
  /\ csv[1].Product = <<"A">> /\ csv[1].Actuals = <<"1", "0", "0">>
  /\ csv[2].Product = <<"A">> /\ csv[2].Actuals = <<"5", "0">>
  /\ csv[3].Product = <<"B">> /\ csv[3].Actuals = <<"3", "0">>
  /\ report.printed["Year"] =
       << [ period |-> <<2024>>,
            top |-> [ Product |-> <<"A">>, Actuals |-> 150,
                      Percentage |-> [kind |-> "number", num |-> 15000, den |-> 180] ],
            bottom |-> [ Product |-> <<"B">>, Actuals |-> 30,
                         Percentage |-> [kind |-> "number", num |-> 3000, den |-> 180] ] ] >>

(***************************************************************************)
(* C15: of the products of a period that share the largest total, the one  *)
(* reported as top is the first in ascending order of product name, and    *)
(* likewise the bottom among those sharing the smallest total; when all    *)
(* products of a period have the same total, top and bottom are that same  *)
(* first product.                                                          *)
(***************************************************************************)
C15_FirstOfTiesWins ==
  Ranked =>
    \A g \in Granularities : \A k \in 1..Len(report.printed[g]) :
      LET r == report.printed[g][k]
          products == ProductsIn(g, r.period)
      IN /\ \A p \in products :
              ProductTotal(g, r.period, p) = r.top.Actuals
                => ~str_less(p, r.top.Product)
         /\ \A p \in products :
              ProductTotal(g, r.period, p) = r.bottom.Actuals
                => ~str_less(p, r.bottom.Product)
         /\ (\A p, q \in products :
               ProductTotal(g, r.period, p) = ProductTotal(g, r.period, q))
              => /\ r.top.Product = r.bottom.Product
                 /\ \A p \in products : ~str_less(p, r.top.Product)

\* Reached: B:50 then A:50 in one month: both totals are equal, and top and
\* bottom are both A although B's row comes first in the file.
C15_Witness ==
  /\ Ranked
  /\ Len(csv) = 2
  /\ IsRecord(csv[1]) /\ IsRecord(csv[2])
  /\ csv[1].Date = csv[2].Date
  /\ csv[1].Product = <<"B">> /\ csv[2].Product = <<"A">>
  /\ csv[1].Actuals = <<"5", "0">> /\ csv[2].Actuals = <<"5", "0">>
  /\ report.printed["Month"][1].top.Product = <<"A">>
  /\ report.printed["Month"][1].bottom.Product = <<"A">>
=============================================================================
